---- MODULE Spec2Model ----
(***************************************************************************)
(* Model of the terminal_relaunch library: the signature-based terminal    *)
(* classifier (src/src/lib.rs, identifier tables in                        *)
(* src/src/terminal_providers.rs), the feature model, the terminal         *)
(* providers and the relaunch orchestrator.                                *)
(*                                                                         *)
(* Strings that the relaunch path quotes, embeds and re-parses (arguments, *)
(* paths) are sequences of characters over a small alphabet; names and     *)
(* values of environment variables are atomic strings.                     *)
(***************************************************************************)
EXTENDS Integers, Sequences, FiniteSets, TLC

\* ----------------------------------------------------------------- bounds
\* Most arguments after argv[0] on a root process's command line.
MaxArgs == 2
\* Most characters in the arguments of one command line whose characters
\* matter (the provider-level specification).
MaxArgChars == 2
\* Most processes: the root process and the children relaunches start.
MaxProcs == 3
MaxEscapeChars == 3

VARIABLES
    os,         \* RuntimeOS: the target_os the library was compiled for
    registry,   \* the Windows registry keys the library reads
    apps,       \* the application bundles present under /Applications
    procs,      \* the processes running the program, in spawn order
    call        \* the last direct call of a library function and its result

vars == <<os, registry, apps, procs, call>>

\* ------------------------------------------------------------ TerminalType

\* The variants of TerminalType in declaration order (strum's EnumIter).
TerminalTypeIter ==
    << "Unknown", "WindowsCMD", "WindowsTerminal", "MacOS", "ITerm2", "Kitty",
       "Ghostty", "ThirdPartyMacOSTerminal", "LinuxTerminal", "WezTerm",
       "Alacritty", "VSCode", "Nvim" >>

TerminalType == { TerminalTypeIter[i] : i \in 1..Len(TerminalTypeIter) }

OperatingSystem == { "Windows", "MacOS", "Linux", "Unknown" }

TargetOperatingSystem == { "Invalid", "Windows", "MacOS", "Linux", "Any" }

target_os(t) ==
    CASE t \in { "WindowsCMD", "WindowsTerminal" } -> "Windows"
      [] t \in { "MacOS", "ITerm2", "Ghostty", "Kitty", "ThirdPartyMacOSTerminal" } -> "MacOS"
      [] t \in { "VSCode", "Nvim", "Alacritty", "WezTerm" } -> "Any"
      [] t = "LinuxTerminal" -> "Linux"
      [] t = "Unknown" -> "Invalid"

supports_rgb_ansi_colours(t) ==
    CASE t \in { "Unknown", "MacOS" } -> FALSE
      [] t \in { "WindowsCMD", "WindowsTerminal", "VSCode", "Nvim", "ITerm2",
                 "ThirdPartyMacOSTerminal", "Alacritty", "WezTerm", "Kitty",
                 "Ghostty", "LinuxTerminal" } -> TRUE

supports_full_unicode(t) ==
    CASE t \in { "Unknown", "WindowsCMD", "MacOS" } -> FALSE
      [] t \in { "WindowsTerminal", "VSCode", "Nvim", "ITerm2",
                 "ThirdPartyMacOSTerminal", "Alacritty", "WezTerm", "Kitty",
                 "Ghostty", "LinuxTerminal" } -> TRUE

is_preferred(t) == supports_full_unicode(t) /\ supports_rgb_ansi_colours(t)

MutantCompatibleWithEveryTarget(self, other) == TRUE

compatible_with_target(self, other) ==
    IF other = "Any" THEN TRUE
    ELSE \/ (self = "Windows" /\ other = "Windows")
         \/ (self = "MacOS" /\ other = "MacOS")
         \/ (self = "Linux" /\ other = "Linux")

\* ------------------------------------------------------------- environment

TERM_PROGRAM_VAR == "TERM_PROGRAM"
TERM_VAR == "TERM"

\* The environment variables the identifier tables name.
EnvNames ==
    { "TERM_PROGRAM", "TERM", "NVIM", "ITERM_SESSION_ID", "ALACRITTY_LOG", "WT_SESSION" }

\* A variable that is not set, and one whose value is not valid Unicode.
Unset == "<unset>"
NotUnicode == "<not-unicode>"

\* The values a variable takes in the model: the values the tables compare
\* against (in two spellings for the case-insensitive ones), one other value,
\* the empty string for the presence markers.
EnvValues(name) ==
    CASE name = "TERM_PROGRAM" ->
             { Unset, NotUnicode, "vscode", "VSCode", "WezTerm", "ghostty",
               "Apple_Terminal", "iTerm.app" }
      [] name = "TERM" -> { Unset, NotUnicode, "xterm-kitty", "xterm-256color" }
      [] OTHER -> { Unset, NotUnicode, "", "1" }

\* Every environment; and, for the process-level specification, the empty
\* environment and those with one variable set to a value the tables name.
Envs ==
    [ TERM_PROGRAM : EnvValues("TERM_PROGRAM"), TERM : EnvValues("TERM"),
      NVIM : EnvValues("NVIM"), ITERM_SESSION_ID : EnvValues("ITERM_SESSION_ID"),
      ALACRITTY_LOG : EnvValues("ALACRITTY_LOG"), WT_SESSION : EnvValues("WT_SESSION") ]

EmptyEnv == [n \in EnvNames |-> Unset]

\* The values that make a signature of the tables true.
MatchingValues(name) ==
    CASE name = "TERM_PROGRAM" -> { "vscode", "WezTerm", "ghostty", "Apple_Terminal" }
      [] name = "TERM" -> { "xterm-kitty" }
      [] OTHER -> { "1" }

StartEnvs ==
    { EmptyEnv } \cup UNION { { [EmptyEnv EXCEPT ![n] = v] : v \in MatchingValues(n) } : n \in EnvNames }

\* std::env::var(name): Ok only for a variable that is set and valid Unicode.
env_var_is_ok(env, name) == env[name] \notin { Unset, NotUnicode }

\* str::to_ascii_lowercase on the values of the model.
to_ascii_lowercase(s) ==
    CASE s = "VSCode" -> "vscode"
      [] s = "WezTerm" -> "wezterm"
      [] s = "Apple_Terminal" -> "apple_terminal"
      [] s = "iTerm.app" -> "iterm.app"
      [] OTHER -> s

eq_ignore_ascii_case(a, b) == to_ascii_lowercase(a) = to_ascii_lowercase(b)

\* ---------------------------------------------------------------- registry

RegMissing == "<missing>"
RegValues == { RegMissing, "{A}", "{B}" }

\* HKCU\Console\%%Startup delegation values and the App Paths key of wt.exe.
Registries ==
    [ DelegationConsole : RegValues, DelegationTerminal : RegValues, wt_app_path : BOOLEAN ]

NoRegistry ==
    [ DelegationConsole |-> RegMissing, DelegationTerminal |-> RegMissing, wt_app_path |-> FALSE ]

\* A machine that does not run Windows has no registry.
RegistriesOf(o) == IF o = "Windows" THEN Registries ELSE { NoRegistry }

check_for_windows_registry_delegation(o, reg) ==
    IF o # "Windows" THEN FALSE
    ELSE IF reg.DelegationConsole = RegMissing THEN FALSE
    ELSE IF reg.DelegationTerminal = RegMissing THEN FALSE
    ELSE reg.DelegationConsole # reg.DelegationTerminal

\* ------------------------------------------------------- TerminalSignature

EnvVarExists(name) == [ sig |-> "EnvVarExists", name |-> name, value |-> "", sigs |-> <<>> ]
EnvVar(name, value) == [ sig |-> "EnvVar", name |-> name, value |-> value, sigs |-> <<>> ]
TermProgram(value) == [ sig |-> "TermProgram", name |-> "", value |-> value, sigs |-> <<>> ]
TermVar(value) == [ sig |-> "TermVar", name |-> "", value |-> value, sigs |-> <<>> ]
WindowsConsoleDelegationSet ==
    [ sig |-> "WindowsConsoleDelegationSet", name |-> "", value |-> "", sigs |-> <<>> ]
SigAny(sigs) == [ sig |-> "Any", name |-> "", value |-> "", sigs |-> sigs ]

RECURSIVE check(_, _, _, _)
check(self, env, o, reg) ==
    CASE self.sig = "EnvVarExists" -> env_var_is_ok(env, self.name)
      [] self.sig = "EnvVar" ->
             env_var_is_ok(env, self.name) /\ eq_ignore_ascii_case(env[self.name], self.value)
      [] self.sig = "TermProgram" ->
             env_var_is_ok(env, TERM_PROGRAM_VAR)
             /\ eq_ignore_ascii_case(env[TERM_PROGRAM_VAR], self.value)
      [] self.sig = "TermVar" ->
             env_var_is_ok(env, TERM_VAR) /\ eq_ignore_ascii_case(env[TERM_VAR], self.value)
      [] self.sig = "WindowsConsoleDelegationSet" ->
             check_for_windows_registry_delegation(o, reg)
      [] self.sig = "Any" ->
             \E k \in 1..Len(self.sigs) : check(self.sigs[k], env, o, reg)

\* ------------------------------------------------------- identifier tables

TerminalIdentifier(kind, target, signatures) ==
    [ kind |-> kind, target_os |-> target, signatures |-> signatures ]

TERMINAL_IDENTIFIERS ==
    << TerminalIdentifier("VSCode", "Any", << TermProgram("vscode") >>),
       TerminalIdentifier("Nvim", "Any", << EnvVarExists("NVIM") >>),
       TerminalIdentifier("ITerm2", "Any", << EnvVarExists("ITERM_SESSION_ID") >>),
       TerminalIdentifier("Alacritty", "Any", << EnvVarExists("ALACRITTY_LOG") >>),
       TerminalIdentifier("WezTerm", "Any", << TermProgram("WezTerm") >>),
       TerminalIdentifier("Kitty", "MacOS", << TermVar("xterm-kitty") >>),
       TerminalIdentifier("Ghostty", "MacOS", << TermProgram("ghostty") >>) >>

FINAL_TERMINAL_IDENTIFIERS ==
    << TerminalIdentifier("WindowsTerminal", "Windows",
           << SigAny(<< WindowsConsoleDelegationSet, EnvVarExists("WT_SESSION") >>) >>),
       TerminalIdentifier("MacOS", "MacOS", << TermProgram("Apple_Terminal") >>) >>

\* ------------------------------------------------------------- classifier

MutantDefaultUnknown(o) == "Unknown"

get_default_terminal_for_os(o) ==
    CASE o = "Windows" -> "WindowsCMD"
      [] o = "MacOS" -> "MacOS"
      [] o = "Linux" -> "LinuxTerminal"
      [] o = "Unknown" -> "Unknown"

MutantFinalTableFirst == FINAL_TERMINAL_IDENTIFIERS \o TERMINAL_IDENTIFIERS

get_all_terminal_identifiers == TERMINAL_IDENTIFIERS \o FINAL_TERMINAL_IDENTIFIERS

get_possible_terminal_identifiers_for(o) ==
    SelectSeq(get_all_terminal_identifiers,
              LAMBDA identifier : compatible_with_target(o, identifier.target_os))

\* The loop of find_current_terminal from its k-th identifier on.
RECURSIVE find_current_terminal_from(_, _, _, _, _)
find_current_terminal_from(ids, k, env, o, reg) ==
    IF k > Len(ids) THEN get_default_terminal_for_os(o)
    ELSE IF \A s \in 1..Len(ids[k].signatures) : check(ids[k].signatures[s], env, o, reg)
         THEN ids[k].kind
         ELSE find_current_terminal_from(ids, k + 1, env, o, reg)

find_current_terminal(o, env, reg) ==
    find_current_terminal_from(get_possible_terminal_identifiers_for(o), 1, env, o, reg)

\* --------------------------------------------------------------- providers

None == "None"

Providers ==
    { "WindowsTerminalProvider", "ITerm2Provider", "GhosttyProvider", "KittyProvider",
      "AlacrittyProvider", "WezTermProvider" }

terminal_type(provider) ==
    CASE provider = "WindowsTerminalProvider" -> "WindowsTerminal"
      [] provider = "ITerm2Provider" -> "ITerm2"
      [] provider = "GhosttyProvider" -> "Ghostty"
      [] provider = "KittyProvider" -> "Kitty"
      [] provider = "AlacrittyProvider" -> "Alacritty"
      [] provider = "WezTermProvider" -> "WezTerm"

ITERM_APP == "/Applications/iTerm.app"
GHOSTTY_APP == "/Applications/Ghostty.app"
KITTY_APP == "/Applications/kitty.app"
ALACRITTY_APP == "/Applications/alacritty.app"
WEZ_TERM_APP == "/Applications/WezTerm.app"

\* The paths whose existence the providers test.
AppPaths == { ITERM_APP, GHOSTTY_APP, KITTY_APP, ALACRITTY_APP, WEZ_TERM_APP }

\* The target_os literal a provider's bodies are compiled for, as a RuntimeOS.
MutantEveryProviderForMacOS(provider) == "MacOS"

ProviderTarget(provider) ==
    IF provider = "WindowsTerminalProvider" THEN "Windows" ELSE "MacOS"

MutantCompiledForEveryTarget(o, target, code) == code

\* for_target!(target, code): code where compiled for target, else false.
for_target(o, target, code) == IF o = target THEN code ELSE FALSE

is_installed(provider, o, fs, reg) ==
    CASE provider = "WindowsTerminalProvider" -> for_target(o, "Windows", reg.wt_app_path)
      [] provider = "ITerm2Provider" -> for_target(o, "MacOS", ITERM_APP \in fs)
      [] provider = "GhosttyProvider" -> for_target(o, "MacOS", GHOSTTY_APP \in fs)
      [] provider = "KittyProvider" -> for_target(o, "MacOS", KITTY_APP \in fs)
      [] provider = "AlacrittyProvider" -> for_target(o, "MacOS", ALACRITTY_APP \in fs)
      [] provider = "WezTermProvider" -> for_target(o, "MacOS", WEZ_TERM_APP \in fs)

MutantNoGhosttyProvider(t) ==
    CASE t = "WindowsTerminal" -> "WindowsTerminalProvider"
      [] t = "ITerm2" -> "ITerm2Provider"
      [] t = "Kitty" -> "KittyProvider"
      [] t = "Alacritty" -> "AlacrittyProvider"
      [] OTHER -> None

get_provider_for_terminal(t) ==
    CASE t = "WindowsTerminal" -> "WindowsTerminalProvider"
      [] t = "ITerm2" -> "ITerm2Provider"
      [] t = "Ghostty" -> "GhosttyProvider"
      [] t = "Kitty" -> "KittyProvider"
      [] t = "Alacritty" -> "AlacrittyProvider"
      [] OTHER -> None

MutantPreferredLastFirst(o) ==
    LET kept == SelectSeq(TerminalTypeIter,
                    LAMBDA t : is_preferred(t) /\ compatible_with_target(o, target_os(t)))
    IN  [ i \in 1..Len(kept) |-> kept[Len(kept) + 1 - i] ]

get_preferred_terminals_for_os(o) ==
    SelectSeq(TerminalTypeIter,
              LAMBDA t : is_preferred(t) /\ compatible_with_target(o, target_os(t)))

\* The loop of find_alternative_terminal from its k-th preferred terminal on.
RECURSIVE find_alternative_terminal_from(_, _, _, _, _)
find_alternative_terminal_from(ts, k, o, fs, reg) ==
    IF k > Len(ts) THEN None
    ELSE LET provider == get_provider_for_terminal(ts[k])
         IN  IF provider # None /\ is_installed(provider, o, fs, reg)
             THEN provider
             ELSE find_alternative_terminal_from(ts, k + 1, o, fs, reg)

find_alternative_terminal(o, fs, reg) ==
    find_alternative_terminal_from(get_preferred_terminals_for_os(o), 1, o, fs, reg)

\* ----------------------------------------------------------------- strings

\* The characters of the arguments: a plain character, the single quote, the
\* backslash and the double quote.
ArgChars == { "x", "'", "\\", "\"" }

\* The strings of at most n characters.
StringsUpTo(n) == UNION { [1..k -> ArgChars] : k \in 0..n }

\* "--relaunched-term", a word of plain characters, kept as one symbol.
RELAUNCHED_ARGUMENT == << "--relaunched-term" >>

\* The path std::env::current_exe() returns, and the working directories.
CurrentExe == << "/app" >>
Dirs == { << "/w" >>, << "/w", "x" >> }

\* The sequences of at most n elements of S.
SeqsUpTo(S, n) == UNION { [1..k -> S] : k \in 0..n }

RECURSIVE Concat(_)
Concat(ss) == IF ss = << >> THEN << >> ELSE Head(ss) \o Concat(Tail(ss))

RECURSIVE Join(_, _)
Join(ss, sep) ==
    IF ss = << >> THEN << >>
    ELSE IF Len(ss) = 1 THEN Head(ss)
    ELSE Head(ss) \o sep \o Join(Tail(ss), sep)

\* s.replace('\'', r"'\''")
replace_single_quotes(s) ==
    Concat([ i \in 1..Len(s) |-> IF s[i] = "'" THEN << "'", "\\", "'", "'" >> ELSE << s[i] >> ])

MutantQuotedWithoutReplace(s) == << "'" >> \o s \o << "'" >>

shell_escape(s) == << "'" >> \o replace_single_quotes(s) \o << "'" >>

shell_escape_args(args) ==
    Join([ i \in 1..Len(args) |-> shell_escape(args[i]) ], << " " >>)

\* ------------------------------------------------------ get_relaunch_params

MutantParamsWithoutSentinel(args, wd) ==
    [ current_exe |-> CurrentExe, current_wd |-> wd,
      args |-> IF args = << >> THEN << >> ELSE Tail(args) ]

\* (current_exe, current_wd, args) once current_exe() and current_dir() have
\* succeeded: the sentinel chained with std::env::args().skip(1).
get_relaunch_params(args, wd) ==
    [ current_exe |-> CurrentExe, current_wd |-> wd,
      args |-> << RELAUNCHED_ARGUMENT >> \o (IF args = << >> THEN << >> ELSE Tail(args)) ]

\* ---------------------------------------------------------------- commands

Inherit == << "<inherit>" >>

Command(program, args, dir) == [ program |-> program, args |-> args, current_dir |-> dir ]

wt_command(params) ==
    Command(<< "wt" >>,
            << << "new-tab" >>, << "--startingDirectory" >>, params.current_wd, << "--" >>,
               params.current_exe >> \o params.args,
            Inherit)

\* The text of: cd {quoted_wd}; exec {quoted_exe} {quoted_args}
iterm_cmd(params) ==
    << "cd", " " >> \o shell_escape(params.current_wd) \o << ";", " ", "exec", " " >>
    \o shell_escape(params.current_exe) \o << " " >> \o shell_escape_args(params.args)

\* The script's text before and after the literal of write text "{cmd}".
ScriptHead == "tell application \"iTerm\" ... write text "
ScriptTail == " end tell ... end tell"

iterm_script(params) ==
    << ScriptHead, "\"" >> \o iterm_cmd(params) \o << "\"", ScriptTail >>

osascript_command(params) ==
    Command(<< "osascript" >>, << << "-e" >>, iterm_script(params) >>, Inherit)

\* open -na {app} --args [-e] {exe} {args}, run in current_wd.
open_command(app, dash_e, params) ==
    Command(<< "open" >>,
            << << "-na" >>, << app >>, << "--args" >> >>
            \o (IF dash_e THEN << << "-e" >> >> ELSE << >>)
            \o << params.current_exe >> \o params.args,
            params.current_wd)

\* The Command a provider's relaunch_in_terminal builds.
relaunch_command(provider, params) ==
    CASE provider = "WindowsTerminalProvider" -> wt_command(params)
      [] provider = "ITerm2Provider" -> osascript_command(params)
      [] provider = "GhosttyProvider" -> open_command("Ghostty", TRUE, params)
      [] provider = "KittyProvider" -> open_command("kitty", FALSE, params)
      [] provider = "AlacrittyProvider" -> open_command("alacritty", TRUE, params)
      [] provider = "WezTermProvider" -> open_command("WezTerm", TRUE, params)

\* --------------------------------------------- what a command hands a child

NoChild == [ started |-> FALSE, args |-> << >>, cwd |-> << >> ]
Child(args, cwd) == [ started |-> TRUE, args |-> args, cwd |-> cwd ]

\* What a script that does not compile, and a text the shell cannot read, give.
Malformed == << << "<malformed>" >> >>
Unreadable == << << << "<unreadable>" >> >> >>

\* The text of the AppleScript string literal whose opening quote is at
\* t[i - 1]: \\ and \" are the escapes of a literal, an unescaped " ends it,
\* and the script compiles only if what follows the literal is its tail.
RECURSIVE applescript_literal(_, _, _)
applescript_literal(t, i, acc) ==
    IF i > Len(t) THEN Malformed
    ELSE IF t[i] = "\"" THEN
        IF SubSeq(t, i + 1, Len(t)) = << ScriptTail >> THEN << acc >> ELSE Malformed
    ELSE IF t[i] = "\\" THEN
        IF i + 1 <= Len(t) /\ t[i + 1] \in { "\\", "\"" }
        THEN applescript_literal(t, i + 2, Append(acc, t[i + 1]))
        ELSE Malformed
    ELSE applescript_literal(t, i + 1, Append(acc, t[i]))

\* The commands (sequences of words) a POSIX shell reads from text: words
\* are split at spaces, commands at ';', single quotes keep every character,
\* a backslash outside quotes keeps the next one.
RECURSIVE shell_read(_, _, _, _, _, _)
shell_read(t, i, mode, cur, words, cmds) ==
    LET words_done == IF mode = "word" THEN Append(words, cur) ELSE words
        cmds_done == IF words_done = << >> THEN cmds ELSE Append(cmds, words_done)
    IN  IF i > Len(t) THEN (IF mode = "quote" THEN Unreadable ELSE cmds_done)
        ELSE IF mode = "quote" THEN
            IF t[i] = "'" THEN shell_read(t, i + 1, "word", cur, words, cmds)
            ELSE shell_read(t, i + 1, "quote", Append(cur, t[i]), words, cmds)
        ELSE IF t[i] = "'" THEN shell_read(t, i + 1, "quote", cur, words, cmds)
        ELSE IF t[i] = "\\" THEN
            IF i + 1 > Len(t) THEN Unreadable
            ELSE shell_read(t, i + 2, "word", Append(cur, t[i + 1]), words, cmds)
        ELSE IF t[i] = "\"" THEN Unreadable
        ELSE IF t[i] = " " THEN shell_read(t, i + 1, "space", << >>, words_done, cmds)
        ELSE IF t[i] = ";" THEN shell_read(t, i + 1, "space", << >>, << >>, cmds_done)
        ELSE shell_read(t, i + 1, "word", Append(cur, t[i]), words, cmds)

shell_commands(text) == shell_read(text, 1, "space", << >>, << >>, << >>)

\* wt new-tab --startingDirectory {wd} -- {exe} {args}: the command line after
\* "--" is run in the starting directory.
wt_child(cmd) == Child(SubSeq(cmd.args, 5, Len(cmd.args)), cmd.args[3])

\* open -na {app} --args ...: the application runs what follows --args (and
\* its -e), in the directory open was started in.
open_child(cmd) ==
    LET from == IF cmd.args[4] = << "-e" >> THEN 5 ELSE 4
    IN  Child(SubSeq(cmd.args, from, Len(cmd.args)), cmd.current_dir)

\* osascript -e {script}: whether the script compiles.
osascript_compiles(cmd) == applescript_literal(cmd.args[2], 3, << >>) # Malformed

\* The session's shell reads the written text: cd {dir}; exec {exe} {args}.
osascript_child(cmd) ==
    LET lit == applescript_literal(cmd.args[2], 3, << >>)
        cmds == IF lit = Malformed THEN Unreadable ELSE shell_commands(lit[1])
    IN  IF /\ cmds # Unreadable
           /\ Len(cmds) = 2
           /\ Len(cmds[1]) = 2 /\ cmds[1][1] = << "cd" >>
           /\ Len(cmds[2]) >= 2 /\ cmds[2][1] = << "exec" >>
           /\ cmds[2][2] = CurrentExe
        THEN Child(Tail(cmds[2]), cmds[1][2])
        ELSE NoChild

launch(cmd) ==
    CASE cmd.program = << "wt" >> -> wt_child(cmd)
      [] cmd.program = << "open" >> -> open_child(cmd)
      [] cmd.program = << "osascript" >> -> osascript_child(cmd)

\* ------------------------------------------------------------------ results

Ok(v) == [ tag |-> "Ok", val |-> v, term |-> "" ]
Err(kind, t) == [ tag |-> "Err", val |-> kind, term |-> t ]
\* A panic (expect on an Err): the call does not return.
Panic(message) == [ tag |-> "Panic", val |-> message, term |-> "" ]
NoResult == [ tag |-> "None", val |-> "", term |-> "" ]
\* The return value of a function that does not return a Result.
Value(v) == [ tag |-> "value", val |-> v, term |-> "" ]
Bool(b) == Value(IF b THEN "true" ELSE "false")

\* What the operating system does during one relaunch: nothing fails, or the
\* first failure is that of current_exe(), of current_dir(), of the spawn, or
\* of the iTerm script (no window, a failed write).
IOs == { "ok", "current_exe fails", "current_dir fails", "spawn fails", "script fails" }

\* ------------------------------------------------------ relaunch_in_terminal

Outcome(provider, ret, child) == [ provider |-> provider, ret |-> ret, child |-> child ]

relaunch_in_terminal(provider, o, args, wd, io) ==
    IF o # ProviderTarget(provider)
    THEN Outcome(provider, Err("UnsupportedTerminalProvider", terminal_type(provider)), NoChild)
    ELSE IF io = "current_exe fails"
    THEN Outcome(provider, Panic("Failed to get current executable path"), NoChild)
    ELSE IF io = "current_dir fails"
    THEN Outcome(provider, Panic("Failed to get current working directory"), NoChild)
    ELSE LET cmd == relaunch_command(provider, get_relaunch_params(args, wd))
         IN  IF io = "spawn fails" THEN Outcome(provider, Err("IOError", ""), NoChild)
             ELSE IF provider = "ITerm2Provider" /\ ~(osascript_compiles(cmd) /\ io # "script fails")
             THEN Outcome(provider, Err("FailedToLaunchTerminal", terminal_type(provider)), NoChild)
             ELSE Outcome(provider, Ok("()"), launch(cmd))

\* ------------------------------------------------------------- orchestrator

MutantSentinelFirstOnly(args) == Len(args) >= 2 /\ args[2] = RELAUNCHED_ARGUMENT

has_been_relaunched(args) == \E i \in 1..Len(args) : args[i] = RELAUNCHED_ARGUMENT

Uninit == "Uninit"

MutantCurrentTerminalRecomputed(p) == find_current_terminal(os, p.env, registry)

\* Dereferencing the LazyLock CURRENT_TERMINAL of process p.
ForceCurrentTerminal(p) ==
    IF p.CURRENT_TERMINAL = Uninit
    THEN find_current_terminal(os, p.env, registry)
    ELSE p.CURRENT_TERMINAL

MutantRelaunchFromAnyTerminal(p) ==
    [ guard |-> ~has_been_relaunched(p.args), CURRENT_TERMINAL |-> ForceCurrentTerminal(p) ]

\* should_attempt_relaunch, with the state of CURRENT_TERMINAL after it: &&
\* does not evaluate its right operand when the left one is false.
should_attempt_relaunch(p) ==
    IF has_been_relaunched(p.args)
    THEN [ guard |-> FALSE, CURRENT_TERMINAL |-> p.CURRENT_TERMINAL ]
    ELSE [ guard |-> ~is_preferred(ForceCurrentTerminal(p)),
           CURRENT_TERMINAL |-> ForceCurrentTerminal(p) ]

\* ----------------------------------------------------- overrides and signals

NO_OVERRIDE == 0
OVERRIDE_TRUE == 1
OVERRIDE_FALSE == 2

\* Option<bool>, and a LazyLock<bool> before (NoValue) and after its first read.
Some(b) == << b >>
NoValue == << >>
OptionBool == { NoValue, Some(TRUE), Some(FALSE) }

\* store_override: the value stored into the atomic target.
store_override(supports) ==
    CASE supports = Some(TRUE) -> OVERRIDE_TRUE
      [] supports = Some(FALSE) -> OVERRIDE_FALSE
      [] OTHER -> NO_OVERRIDE

\* read_override of the value loaded from the atomic target.
read_override(target) ==
    CASE target = OVERRIDE_TRUE -> Some(TRUE)
      [] target = OVERRIDE_FALSE -> Some(FALSE)
      [] OTHER -> NoValue

is_unicode_overridden(p) == read_override(p.OVERRIDE_UNICODE_SUPPORT)

is_rgb_ansi_overridden(p) == read_override(p.OVERRIDE_RGB_ANSI_COLOURS)

\* Dereferencing the LazyLock SUPPORTS_FULL_UNICODE of process p: its value,
\* and the state of CURRENT_TERMINAL after it. The closure runs on the first
\* dereference only, and reads CURRENT_TERMINAL only without an override.
SUPPORTS_FULL_UNICODE(p) ==
    IF p.SUPPORTS_FULL_UNICODE # NoValue
    THEN [ value |-> p.SUPPORTS_FULL_UNICODE[1], CURRENT_TERMINAL |-> p.CURRENT_TERMINAL ]
    ELSE IF is_unicode_overridden(p) # NoValue
    THEN [ value |-> is_unicode_overridden(p)[1], CURRENT_TERMINAL |-> p.CURRENT_TERMINAL ]
    ELSE [ value |-> supports_full_unicode(ForceCurrentTerminal(p)),
           CURRENT_TERMINAL |-> ForceCurrentTerminal(p) ]

\* Dereferencing the LazyLock SUPPORTS_RGB_ANSI_COLOURS of process p: its
\* closure asks is_unicode_overridden().
SUPPORTS_RGB_ANSI_COLOURS(p) ==
    IF p.SUPPORTS_RGB_ANSI_COLOURS # NoValue
    THEN [ value |-> p.SUPPORTS_RGB_ANSI_COLOURS[1], CURRENT_TERMINAL |-> p.CURRENT_TERMINAL ]
    ELSE IF is_unicode_overridden(p) # NoValue
    THEN [ value |-> is_unicode_overridden(p)[1], CURRENT_TERMINAL |-> p.CURRENT_TERMINAL ]
    ELSE [ value |-> supports_rgb_ansi_colours(ForceCurrentTerminal(p)),
           CURRENT_TERMINAL |-> ForceCurrentTerminal(p) ]

try_relaunch_in_preferred_terminal(p, io) ==
    LET provider == find_alternative_terminal(os, apps, registry)
    IN  IF provider # None
        THEN relaunch_in_terminal(provider, os, p.args, p.cwd, io)
        ELSE Outcome(None, Err("NoAlternativeTerminalFound", ""), NoChild)

\* relaunch_if_available: its return value, with what it did on the way.
relaunch_if_available(p, io) ==
    LET g == should_attempt_relaunch(p)
        attempt == try_relaunch_in_preferred_terminal(p, io)
    IN  IF g.guard
        THEN [ guard |-> TRUE, CURRENT_TERMINAL |-> g.CURRENT_TERMINAL,
               provider |-> attempt.provider, provider_ret |-> attempt.ret,
               child |-> attempt.child,
               ret |-> IF attempt.ret.tag = "Ok" THEN Ok("true") ELSE attempt.ret ]
        ELSE [ guard |-> FALSE, CURRENT_TERMINAL |-> g.CURRENT_TERMINAL,
               provider |-> None, provider_ret |-> NoResult,
               child |-> NoChild, ret |-> Ok("false") ]

\* ---------------------------------------------------------------- processes

NewProcess(args, cwd, env, parent) ==
    [ args |-> args, cwd |-> cwd, env |-> env, parent |-> parent,
      CURRENT_TERMINAL |-> Uninit, pc |-> "running", spawned |-> 0,
      exit_code |-> 0,
      OVERRIDE_UNICODE_SUPPORT |-> NO_OVERRIDE, OVERRIDE_RGB_ANSI_COLOURS |-> NO_OVERRIDE,
      SUPPORTS_FULL_UNICODE |-> NoValue, SUPPORTS_RGB_ANSI_COLOURS |-> NoValue ]

\* A call of a library function in process proc: whether the guard passed,
\* the provider chosen and what its relaunch_in_terminal returned, the
\* process started (0: none) and what the call returned.
Call(fn, proc, arg, guard, provider, provider_ret, child, ret) ==
    [ fn |-> fn, proc |-> proc, arg |-> arg, guard |-> guard, provider |-> provider,
      provider_ret |-> provider_ret, child |-> child, ret |-> ret ]

NoArg == "()"

NoCall == Call("none", 0, NoArg, FALSE, None, NoResult, 0, NoResult)

\* The environment of a process a terminal has started is the terminal's: it
\* is not known before the process first reads it.
Unread == [ n \in EnvNames |-> "<unread>" ]

\* Process i once it has read its environment, if it had not.
WithEnv(i, env) == [ procs[i] EXCEPT !.env = IF @ = Unread THEN env ELSE @ ]

\* The call process i has made, and the processes after it: the record of
\* process i, and the child the call started.
TheCall(i, fn, arg, r, ret) ==
    Call(fn, i, arg, r.guard, r.provider, r.provider_ret,
         IF r.child.started THEN Len(procs) + 1 ELSE 0, ret)

AfterCall(i, env, r, pc, exit_code) ==
    LET p == procs[i]
        q == [ p EXCEPT !.env = IF r.CURRENT_TERMINAL = Uninit THEN p.env
                                ELSE WithEnv(i, env).env,
                        !.CURRENT_TERMINAL = r.CURRENT_TERMINAL,
                        !.pc = pc,
                        !.spawned = p.spawned + (IF r.child.started THEN 1 ELSE 0),
                        !.exit_code = exit_code ]
        updated == [ procs EXCEPT ![i] = q ]
    IN  IF r.child.started
        THEN Append(updated, NewProcess(r.child.args, r.child.cwd, Unread, i))
        ELSE updated

CanCall(i) == i <= Len(procs) /\ procs[i].pc = "running"

\* The environments process i may find if its next call reads its own: the
\* call reads it to initialise CURRENT_TERMINAL, when the sentinel is absent.
EnvsOf(i) ==
    IF /\ procs[i].env = Unread
       /\ procs[i].CURRENT_TERMINAL = Uninit
       /\ ~has_been_relaunched(procs[i].args)
    THEN StartEnvs
    ELSE { procs[i].env }

\* What the operating system may do during a call of process p: it is asked
\* for nothing unless the guard passes and a provider is found.
IOsOf(p) ==
    IF should_attempt_relaunch(p).guard /\ find_alternative_terminal(os, apps, registry) # None
    THEN IOs
    ELSE { "ok" }

PcAfter(ret) == IF ret.tag = "Panic" THEN "panicked" ELSE "running"

\* Process i calls should_attempt_relaunch().
ShouldAttemptRelaunch(i) ==
    /\ CanCall(i)
    /\ \E env \in EnvsOf(i) : \E g \in { should_attempt_relaunch(WithEnv(i, env)) } :
          LET r == [ guard |-> g.guard, CURRENT_TERMINAL |-> g.CURRENT_TERMINAL,
                     provider |-> None, provider_ret |-> NoResult, child |-> NoChild ]
          IN  /\ procs' = AfterCall(i, env, r, "running", 0)
              /\ call' = TheCall(i, "should_attempt_relaunch", NoArg, r, Bool(g.guard))
    /\ UNCHANGED << os, registry, apps >>

\* Process i calls relaunch_if_available().
RelaunchIfAvailable(i) ==
    /\ CanCall(i)
    /\ \E env \in EnvsOf(i) : \E io \in IOsOf(WithEnv(i, env)) :
          \E r \in { relaunch_if_available(WithEnv(i, env), io) } :
              /\ r.child.started => Len(procs) < MaxProcs
              /\ procs' = AfterCall(i, env, r, PcAfter(r.ret), 0)
              /\ call' = TheCall(i, "relaunch_if_available", NoArg, r, r.ret)
    /\ UNCHANGED << os, registry, apps >>

\* The exit code a caller passes, other than the default one.
ExitCodes == { 3 }

\* relaunch_if_available_and_exit_with(exit_code): the return value and
\* whether std::process::exit(exit_code) was called.
relaunch_if_available_and_exit_with(p, io, exit_code) ==
    LET r == relaunch_if_available(p, io)
    IN  IF r.ret.tag # "Ok" THEN [ r |-> r, ret |-> r.ret, pc |-> PcAfter(r.ret), exit_code |-> 0 ]
        ELSE IF r.ret = Ok("true")
        THEN [ r |-> r, ret |-> NoResult, pc |-> "exited", exit_code |-> exit_code ]
        ELSE [ r |-> r, ret |-> Ok("()"), pc |-> "running", exit_code |-> 0 ]

\* Process i calls relaunch_if_available_and_exit_with(exit_code).
RelaunchIfAvailableAndExitWith(i) ==
    /\ CanCall(i)
    /\ \E env \in EnvsOf(i), exit_code \in ExitCodes : \E io \in IOsOf(WithEnv(i, env)) :
          \E x \in { relaunch_if_available_and_exit_with(WithEnv(i, env), io, exit_code) } :
              /\ x.r.child.started => Len(procs) < MaxProcs
              /\ procs' = AfterCall(i, env, x.r, x.pc, x.exit_code)
              /\ call' = TheCall(i, "relaunch_if_available_and_exit_with", exit_code, x.r, x.ret)
    /\ UNCHANGED << os, registry, apps >>

DEFAULT_EXIT_CODE == 0

\* Process i calls relaunch_if_available_and_exit().
RelaunchIfAvailableAndExit(i) ==
    /\ CanCall(i)
    /\ \E env \in EnvsOf(i) : \E io \in IOsOf(WithEnv(i, env)) :
          \E x \in { relaunch_if_available_and_exit_with(WithEnv(i, env), io, DEFAULT_EXIT_CODE) } :
              /\ x.r.child.started => Len(procs) < MaxProcs
              /\ procs' = AfterCall(i, env, x.r, x.pc, x.exit_code)
              /\ call' = TheCall(i, "relaunch_if_available_and_exit", NoArg, x.r, x.ret)
    /\ UNCHANGED << os, registry, apps >>

\* ------------------------------------------- the process-level specification

\* The registries of the process-level specification: no delegation values,
\* or two different ones.
StartRegistriesOf(o) ==
    { r \in RegistriesOf(o) :
        << r.DelegationConsole, r.DelegationTerminal >> \in
            { << RegMissing, RegMissing >>, << "{A}", "{B}" >> } }

\* The /Applications of the process-level specification: no bundle, or one;
\* off macOS, where no provider looks at it, none or alacritty.app, the
\* bundle of a terminal that runs on every system and has a provider.
StartAppsOf(o) ==
    IF o = "MacOS" THEN { {} } \cup { { a } : a \in AppPaths } ELSE { {}, { ALACRITTY_APP } }

Argv0 == << "app" >>
StartDir == << "/w" >>

\* The command lines of a root process: its name, then at most MaxArgs
\* arguments, each the sentinel or another word.
StartArgs ==
    { << Argv0 >> \o rest : rest \in SeqsUpTo({ RELAUNCHED_ARGUMENT, << "x" >> }, MaxArgs) }

Init ==
    /\ os \in OperatingSystem
    /\ registry \in StartRegistriesOf(os)
    /\ apps \in StartAppsOf(os)
    /\ procs \in { << NewProcess(args, StartDir, env, 0) >> : args \in StartArgs, env \in StartEnvs }
    /\ call = NoCall

Next ==
    \E i \in 1..MaxProcs :
        \/ ShouldAttemptRelaunch(i)
        \/ RelaunchIfAvailable(i)
        \/ RelaunchIfAvailableAndExitWith(i)
        \/ RelaunchIfAvailableAndExit(i)

Spec == Init /\ [][Next]_vars

\* The process that made the last call, and whether the sentinel is one of
\* its arguments.
Caller == procs[call.proc]
SentinelIn(args) == RELAUNCHED_ARGUMENT \in { args[k] : k \in DOMAIN args }

OrchestratorCalls ==
    { "should_attempt_relaunch", "relaunch_if_available",
      "relaunch_if_available_and_exit_with", "relaunch_if_available_and_exit" }

ExitCalls == { "relaunch_if_available_and_exit_with", "relaunch_if_available_and_exit" }

C4_NoRelaunchRecursion ==
    \A i \in 1..Len(procs) :
        procs[i].parent # 0 =>
            /\ SentinelIn(procs[i].args)
            /\ procs[i].spawned = 0
            /\ procs[procs[i].parent].parent = 0
            /\ (call.proc = i /\ call.fn = "relaunch_if_available") =>
                   call.ret = Ok("false") /\ call.child = 0

\* A child has called relaunch_if_available, which returned Ok(false), while
\* a provider was installed and there was room for one more process.
C4_Witness ==
    /\ call.fn = "relaunch_if_available"
    /\ Caller.parent # 0
    /\ call.ret = Ok("false")
    /\ find_alternative_terminal(os, apps, registry) # None
    /\ Len(procs) < MaxProcs

\* C8: relaunch_if_available returns Ok(false), having searched for and
\* started nothing, exactly when the guard fails; when the guard passes it
\* returns Ok(true) only if a provider was found and its relaunch succeeded,
\* NoAlternativeTerminalFound when no installed preferred provider exists, and
\* otherwise the provider's own error.
C8_ReturnsOfRelaunchIfAvailable ==
    call.fn = "relaunch_if_available" =>
        /\ (call.ret = Ok("false")) <=> ~call.guard
        /\ ~call.guard => call.provider = None /\ call.child = 0
        /\ call.ret = Ok("true") =>
               call.guard /\ call.provider # None /\ call.provider_ret = Ok("()")
        /\ (call.guard /\ find_alternative_terminal(os, apps, registry) = None) =>
               call.ret = Err("NoAlternativeTerminalFound", "")
        /\ (call.guard /\ call.provider # None /\ call.provider_ret # Ok("()")) =>
               call.ret.tag = "Err" /\ call.ret = call.provider_ret

\* C10: the library terminates the process only inside
\* relaunch_if_available_and_exit_with, only after a successful relaunch and
\* with the caller's exit code (0 for relaunch_if_available_and_exit); on every
\* failure path an error is returned and the process keeps running; when the
\* guard fails Ok(()) is returned with no spawn and no exit.
C10_ExitOnlyOnSuccess ==
    call.fn \in OrchestratorCalls =>
        /\ Caller.pc # "running" =>
               /\ Caller.pc = "exited"
               /\ call.fn \in ExitCalls
               /\ call.provider_ret = Ok("()") /\ call.child # 0
               /\ call.fn = "relaunch_if_available_and_exit" =>
                      Caller.exit_code = DEFAULT_EXIT_CODE
               /\ call.fn = "relaunch_if_available_and_exit_with" =>
                      Caller.exit_code = call.arg
        /\ (call.guard /\ call.fn # "should_attempt_relaunch"
                /\ call.provider_ret # Ok("()")) =>
               call.ret.tag = "Err" /\ Caller.pc = "running"
        /\ (~call.guard /\ call.fn \in ExitCalls) =>
               call.ret = Ok("()") /\ call.child = 0 /\ Caller.pc = "running"

\* The calls that may relaunch.
RelaunchCalls == OrchestratorCalls \ { "should_attempt_relaunch" }

\* A call that entered Relaunching: the guard passed and a provider was found.
EnteredRelaunching(c) == c.fn \in RelaunchCalls /\ c.guard /\ c.provider # None

\* C11: once a call of relaunch_if_available has ended (Exited, Failed or
\* Continuing), no later orchestrator call of the same process enters
\* Relaunching, and no process starts more than one child.
C11_OutcomeIsTerminal ==
    /\ [](\A i \in 1..Len(procs) : procs[i].spawned <= 1)
    /\ [][(call.fn \in RelaunchCalls /\ call'.proc = call.proc)
            => ~EnteredRelaunching(call')]_vars

\* C19: whenever a call passes the guard and finds a provider, the
\* provider's terminal is preferred (full Unicode and RGB colours), its target
\* is compatible with RuntimeOS, and it is not the classified current terminal.
C19_TargetPreferredCompatibleAndOther ==
    EnteredRelaunching(call) =>
        /\ supports_full_unicode(terminal_type(call.provider))
        /\ supports_rgb_ansi_colours(terminal_type(call.provider))
        /\ compatible_with_target(os, target_os(terminal_type(call.provider)))
        /\ terminal_type(call.provider) # Caller.CURRENT_TERMINAL

\* relaunch_if_available has started iTerm2 from Terminal.app's kind of
\* terminal on macOS.
C19_Witness ==
    /\ EnteredRelaunching(call)
    /\ call.fn = "relaunch_if_available"
    /\ call.child # 0
    /\ os = "MacOS"
    /\ call.provider = "ITerm2Provider"
    /\ Caller.CURRENT_TERMINAL \in { "MacOS", "ThirdPartyMacOSTerminal" }

\* ------------------------------------------ the feature signals' specification

\* A call of process i that starts nothing and leaves the process running.
PlainCall(fn, i, arg, ret) == Call(fn, i, arg, FALSE, None, NoResult, 0, ret)

\* Process i calls set_unicode_support_override(supports).
SetUnicodeSupportOverride(i) ==
    /\ CanCall(i)
    /\ \E supports \in OptionBool :
          /\ procs' = [ procs EXCEPT ![i].OVERRIDE_UNICODE_SUPPORT = store_override(supports) ]
          /\ call' = PlainCall("set_unicode_support_override", i, supports, Value("()"))
    /\ UNCHANGED << os, registry, apps >>

\* Process i calls set_rgb_ansi_override(supports).
SetRgbAnsiOverride(i) ==
    /\ CanCall(i)
    /\ \E supports \in OptionBool :
          /\ procs' = [ procs EXCEPT ![i].OVERRIDE_RGB_ANSI_COLOURS = store_override(supports) ]
          /\ call' = PlainCall("set_rgb_ansi_override", i, supports, Value("()"))
    /\ UNCHANGED << os, registry, apps >>

\* Process i calls is_unicode_overridden().
IsUnicodeOverridden(i) ==
    /\ CanCall(i)
    /\ call' = PlainCall("is_unicode_overridden", i, NoArg, Value(is_unicode_overridden(procs[i])))
    /\ UNCHANGED << os, registry, apps, procs >>

\* Process i calls is_rgb_ansi_overridden().
IsRgbAnsiOverridden(i) ==
    /\ CanCall(i)
    /\ call' = PlainCall("is_rgb_ansi_overridden", i, NoArg, Value(is_rgb_ansi_overridden(procs[i])))
    /\ UNCHANGED << os, registry, apps, procs >>

\* Process i reads *SUPPORTS_FULL_UNICODE.
ReadSupportsFullUnicode(i) ==
    /\ CanCall(i)
    /\ \E x \in { SUPPORTS_FULL_UNICODE(procs[i]) } :
          /\ procs' = [ procs EXCEPT ![i].SUPPORTS_FULL_UNICODE = Some(x.value),
                                     ![i].CURRENT_TERMINAL = x.CURRENT_TERMINAL ]
          /\ call' = PlainCall("SUPPORTS_FULL_UNICODE", i, NoArg, Bool(x.value))
    /\ UNCHANGED << os, registry, apps >>

\* Process i reads *SUPPORTS_RGB_ANSI_COLOURS.
ReadSupportsRgbAnsiColours(i) ==
    /\ CanCall(i)
    /\ \E x \in { SUPPORTS_RGB_ANSI_COLOURS(procs[i]) } :
          /\ procs' = [ procs EXCEPT ![i].SUPPORTS_RGB_ANSI_COLOURS = Some(x.value),
                                     ![i].CURRENT_TERMINAL = x.CURRENT_TERMINAL ]
          /\ call' = PlainCall("SUPPORTS_RGB_ANSI_COLOURS", i, NoArg, Bool(x.value))
    /\ UNCHANGED << os, registry, apps >>

\* Process i reads *CURRENT_TERMINAL.
ReadCurrentTerminal(i) ==
    /\ CanCall(i)
    /\ \E t \in { ForceCurrentTerminal(procs[i]) } :
          /\ procs' = [ procs EXCEPT ![i].CURRENT_TERMINAL = t ]
          /\ call' = PlainCall("CURRENT_TERMINAL", i, NoArg, Value(t))
    /\ UNCHANGED << os, registry, apps >>

\* The environments of this specification: none of the variables, VS Code's
\* (a preferred terminal on every system), Terminal.app's.
SignalEnvs ==
    { EmptyEnv, [ EmptyEnv EXCEPT !.TERM_PROGRAM = "vscode" ],
      [ EmptyEnv EXCEPT !.TERM_PROGRAM = "Apple_Terminal" ] }

\* Process i changes its environment variables (std::env::set_var and
\* remove_var), which the signatures read.
SetEnv(i) ==
    /\ CanCall(i)
    /\ \E env \in SignalEnvs \ { procs[i].env } :
          /\ procs' = [ procs EXCEPT ![i].env = env ]
          /\ call' = PlainCall("std::env::set_var", i, NoArg, Value("()"))
    /\ UNCHANGED << os, registry, apps >>

InitSignals ==
    /\ os \in OperatingSystem
    /\ registry \in StartRegistriesOf(os)
    /\ apps = {}
    /\ procs \in { << NewProcess(args, StartDir, env, 0) >> :
                     args \in { << Argv0 >>, << Argv0, RELAUNCHED_ARGUMENT >> },
                     env \in SignalEnvs }
    /\ call = NoCall

NextSignals ==
    \/ SetUnicodeSupportOverride(1)
    \/ SetRgbAnsiOverride(1)
    \/ IsUnicodeOverridden(1)
    \/ IsRgbAnsiOverridden(1)
    \/ ReadSupportsFullUnicode(1)
    \/ ReadSupportsRgbAnsiColours(1)
    \/ ReadCurrentTerminal(1)
    \/ SetEnv(1)
    \/ ShouldAttemptRelaunch(1)

SpecSignals == InitSignals /\ [][NextSignals]_vars

\* The value a signal has under an override, and otherwise the terminal's
\* attribute.
Resolved(override, attribute) == IF override # NoValue THEN override[1] ELSE attribute

\* C12: every read of SUPPORTS_FULL_UNICODE is true while the Unicode override
\* is Some(true), and is the static Unicode attribute of the classified terminal
\* while the override is cleared.
C12_UnicodeOverridePrecedence ==
    call.fn = "SUPPORTS_FULL_UNICODE" =>
        /\ is_unicode_overridden(Caller) = Some(TRUE) => call.ret = Bool(TRUE)
        /\ is_unicode_overridden(Caller) = NoValue =>
              call.ret = Bool(supports_full_unicode(ForceCurrentTerminal(Caller)))

\* C13: every read of SUPPORTS_RGB_ANSI_COLOURS is the RGB override when one
\* is set and otherwise the static RGB attribute of the classified terminal,
\* whatever the Unicode override is; is_rgb_ansi_overridden returns what
\* set_rgb_ansi_override stored.
C13_RgbOverrideIndependent ==
    /\ call.fn = "SUPPORTS_RGB_ANSI_COLOURS" =>
          call.ret = Bool(Resolved(is_rgb_ansi_overridden(Caller),
                                   supports_rgb_ansi_colours(ForceCurrentTerminal(Caller))))
    /\ call.fn = "is_rgb_ansi_overridden" =>
          call.ret = Value(read_override(Caller.OVERRIDE_RGB_ANSI_COLOURS))

\* C14: once CURRENT_TERMINAL has been read, no step changes it, whatever
\* the environment variables become, and every later should_attempt_relaunch
\* returns what the kept classification and the arguments give.
C14_ClassificationKept ==
    [][\A i \in 1..Len(procs) :
          procs[i].CURRENT_TERMINAL # Uninit =>
              /\ procs'[i].CURRENT_TERMINAL = procs[i].CURRENT_TERMINAL
              /\ (call'.fn = "should_attempt_relaunch" /\ call'.proc = i) =>
                    call'.ret = Bool(~SentinelIn(procs[i].args)
                                       /\ ~is_preferred(procs[i].CURRENT_TERMINAL))]_vars

\* should_attempt_relaunch has returned true in a process whose environment
\* has become VS Code's after the classification was computed.
C14_Witness ==
    /\ call.fn = "should_attempt_relaunch"
    /\ call.ret = Bool(TRUE)
    /\ Caller.CURRENT_TERMINAL # find_current_terminal(os, Caller.env, registry)
    /\ is_preferred(find_current_terminal(os, Caller.env, registry))

\* -------------------------------------------- the provider search's specification

\* The search of a provider, on any system with any registry and any set of
\* application bundles, in a root process whose terminal is the system's
\* default one.
InitFind ==
    /\ os \in OperatingSystem
    /\ registry \in RegistriesOf(os)
    /\ apps \in SUBSET AppPaths
    /\ procs = << NewProcess(<< Argv0 >>, StartDir, EmptyEnv, 0) >>
    /\ call = NoCall

FindAlternativeTerminal ==
    /\ call' = Call("find_alternative_terminal", 1, NoArg, FALSE,
                    find_alternative_terminal(os, apps, registry), NoResult, 0, NoResult)
    /\ UNCHANGED << os, registry, apps, procs >>

GetProviderForTerminal(t) ==
    /\ call' = Call("get_provider_for_terminal", 1, t, FALSE,
                    get_provider_for_terminal(t), NoResult, 0, NoResult)
    /\ UNCHANGED << os, registry, apps, procs >>

\* Process i calls try_relaunch_in_preferred_terminal(), which does not ask
\* the guard.
TryRelaunchInPreferredTerminal(i) ==
    /\ CanCall(i)
    /\ \E io \in (IF find_alternative_terminal(os, apps, registry) # None THEN IOs ELSE { "ok" }) :
          \E out \in { try_relaunch_in_preferred_terminal(procs[i], io) } :
          LET r == [ guard |-> FALSE, CURRENT_TERMINAL |-> procs[i].CURRENT_TERMINAL,
                     provider |-> out.provider, provider_ret |-> out.ret, child |-> out.child ]
          IN  /\ out.child.started => Len(procs) < MaxProcs
              /\ procs' = AfterCall(i, procs[i].env, r, PcAfter(out.ret), 0)
              /\ call' = TheCall(i, "try_relaunch_in_preferred_terminal", NoArg, r, out.ret)
    /\ UNCHANGED << os, registry, apps >>

NextFind ==
    \/ FindAlternativeTerminal
    \/ \E t \in TerminalType : GetProviderForTerminal(t)
    \/ RelaunchIfAvailable(1)
    \/ TryRelaunchInPreferredTerminal(1)

SpecFind == InitFind /\ [][NextFind]_vars

\* The positions in declaration order of the variants that are preferred,
\* compatible with the system, have a provider and whose provider reports
\* is_installed.
EligiblePositions ==
    { k \in 1..Len(TerminalTypeIter) :
        LET t == TerminalTypeIter[k]
        IN  /\ supports_full_unicode(t) /\ supports_rgb_ansi_colours(t)
            /\ compatible_with_target(os, target_os(t))
            /\ get_provider_for_terminal(t) # None
            /\ is_installed(get_provider_for_terminal(t), os, apps, registry) }

EarliestEligible ==
    TerminalTypeIter[CHOOSE k \in EligiblePositions : \A m \in EligiblePositions : k <= m]

\* C6: find_alternative_terminal returns the provider of the earliest variant
\* in declaration order that is preferred, compatible with RuntimeOS, has a
\* provider and is installed; variants without a provider are skipped; it
\* returns none exactly when there is no such variant.
C6_EarliestInstalledPreferred ==
    call.fn = "find_alternative_terminal" =>
        /\ EligiblePositions = {} <=> call.provider = None
        /\ EligiblePositions # {} =>
               /\ call.provider \in Providers
               /\ terminal_type(call.provider) = EarliestEligible

\* Ghostty is chosen before Alacritty, and WezTerm, which has no provider, is
\* skipped.
C6_Witness ==
    /\ call.fn = "find_alternative_terminal"
    /\ os = "MacOS"
    /\ apps = { GHOSTTY_APP, ALACRITTY_APP, WEZ_TERM_APP }
    /\ Cardinality(EligiblePositions) = 2
    /\ call.provider = "GhosttyProvider"

\* The terminals the library has a provider type for.
Relaunchable == { terminal_type(provider) : provider \in Providers }

\* C7: for each of WindowsTerminal, ITerm2, Ghostty, Kitty, Alacritty and
\* WezTerm, get_provider_for_terminal returns a provider whose terminal_type()
\* is that variant, so find_alternative_terminal chooses each of the six when
\* it is the one installed.
C7_ProviderForEachRelaunchable ==
    /\ (call.fn = "get_provider_for_terminal" /\ call.arg \in Relaunchable) =>
           call.provider \in Providers /\ terminal_type(call.provider) = call.arg
    /\ call.fn = "find_alternative_terminal" =>
           \A provider \in Providers :
               (\A other \in Providers :
                    is_installed(other, os, apps, registry) <=> other = provider)
               => call.provider = provider

\* C9 as claimed: on macOS, in a terminal that is not preferred, with
\* /Applications/Ghostty.app present, relaunch_if_available selects the Ghostty
\* provider.
C9_GhosttyWheneverPresent ==
    (call.fn = "relaunch_if_available" /\ os = "MacOS" /\ call.guard
        /\ GHOSTTY_APP \in apps)
    => call.provider = "GhosttyProvider"

\* C9: on macOS, in a terminal that is not preferred, with
\* /Applications/Ghostty.app present and neither iTerm.app nor kitty.app, the
\* bundles of the two variants declared before Ghostty, relaunch_if_available
\* selects the Ghostty provider; with one of them present it does not.
C9_GhosttyUnlessITermOrKitty ==
    (call.fn = "relaunch_if_available" /\ os = "MacOS" /\ call.guard
        /\ GHOSTTY_APP \in apps)
    => (call.provider = "GhosttyProvider" <=> (ITERM_APP \notin apps /\ KITTY_APP \notin apps))

\* Ghostty is selected, and the relaunch started a child, with the bundles of
\* Alacritty and WezTerm present too.
C9_Witness ==
    /\ call.fn = "relaunch_if_available"
    /\ os = "MacOS"
    /\ ~is_preferred(Caller.CURRENT_TERMINAL)
    /\ apps = { GHOSTTY_APP, ALACRITTY_APP, WEZ_TERM_APP }
    /\ call.provider = "GhosttyProvider"
    /\ call.child # 0

\* C20: the provider find_alternative_terminal selects runs on RuntimeOS,
\* and neither relaunch_if_available nor try_relaunch_in_preferred_terminal
\* returns UnsupportedTerminalProvider.
C20_NeverUnsupported ==
    /\ call.provider # None =>
          \/ call.provider = "WindowsTerminalProvider" /\ os = "Windows"
          \/ call.provider # "WindowsTerminalProvider" /\ os = "MacOS"
          \/ call.fn = "get_provider_for_terminal"
    /\ call.fn \in { "relaunch_if_available", "try_relaunch_in_preferred_terminal" } =>
          /\ call.ret.val # "UnsupportedTerminalProvider"
          /\ call.provider_ret.val # "UnsupportedTerminalProvider"

\* On Linux with alacritty.app in /Applications, the bundle of a terminal
\* whose variant runs everywhere, no provider is selected.
C20_Witness ==
    /\ call.fn = "try_relaunch_in_preferred_terminal"
    /\ os = "Linux"
    /\ ALACRITTY_APP \in apps
    /\ call.provider = None
    /\ call.ret = Err("NoAlternativeTerminalFound", "")

\* ------------------------------------------------ the providers' specification

RECURSIVE TotalLen(_)
TotalLen(ss) == IF ss = << >> THEN 0 ELSE Len(Head(ss)) + TotalLen(Tail(ss))

\* The argument lists after argv[0]: at most MaxArgs arguments of at most
\* MaxArgChars characters in all.
ArgLists ==
    { rest \in SeqsUpTo(StringsUpTo(MaxArgChars), MaxArgs) : TotalLen(rest) <= MaxArgChars }

\* A provider's relaunch_in_terminal() is called, once, in a root process with
\* any such arguments, in either directory, on any system.
InitRelaunch ==
    /\ os \in OperatingSystem
    /\ registry = NoRegistry
    /\ apps = {}
    /\ procs \in { << NewProcess(<< Argv0 >> \o rest, wd, EmptyEnv, 0) >> :
                      rest \in ArgLists, wd \in Dirs }
    /\ call = NoCall

ProviderRelaunchInTerminal(provider) ==
    /\ call = NoCall
    /\ \E io \in IOs :
          \E out \in { relaunch_in_terminal(provider, os, procs[1].args, procs[1].cwd, io) } :
          LET r == [ guard |-> FALSE, CURRENT_TERMINAL |-> procs[1].CURRENT_TERMINAL,
                     provider |-> provider, provider_ret |-> out.ret, child |-> out.child ]
          IN  /\ procs' = AfterCall(1, procs[1].env, r, PcAfter(out.ret), 0)
              /\ call' = TheCall(1, "relaunch_in_terminal", NoArg, r, out.ret)
    /\ UNCHANGED << os, registry, apps >>

NextRelaunch == \E provider \in Providers : ProviderRelaunchInTerminal(provider)

SpecRelaunch == InitRelaunch /\ [][NextRelaunch]_vars

\* C5: the argument list a provider hands to the child is the sentinel, then
\* the parent's arguments without argv[0], in the same order and unchanged;
\* the child's working directory is the parent's.
C5_ChildArgumentsAndDirectory ==
    (call.fn = "relaunch_in_terminal" /\ call.child # 0) =>
        /\ Tail(procs[call.child].args) = << RELAUNCHED_ARGUMENT >> \o Tail(Caller.args)
        /\ procs[call.child].cwd = Caller.cwd

\* The last call was relaunch_in_terminal of a provider whose platform is
\* not the system's.
OffPlatform ==
    /\ call.fn = "relaunch_in_terminal"
    /\ \/ call.provider = "WindowsTerminalProvider" /\ os # "Windows"
       \/ call.provider \in { "ITerm2Provider", "GhosttyProvider", "KittyProvider",
                              "AlacrittyProvider", "WezTermProvider" } /\ os # "MacOS"

\* C16: relaunch_in_terminal of a provider whose platform is not the system's
\* returns UnsupportedTerminalProvider with the provider's variant, and no
\* process is started.
C16_UnsupportedOffPlatform ==
    OffPlatform =>
        /\ call.ret = Err("UnsupportedTerminalProvider", terminal_type(call.provider))
        /\ call.child = 0
        /\ Len(procs) = 1
        /\ Caller.spawned = 0

\* Windows Terminal's provider has been asked on macOS, Alacritty's on Linux.
C16_Witness ==
    /\ OffPlatform
    /\ \/ call.provider = "WindowsTerminalProvider" /\ os = "MacOS"
             /\ call.ret = Err("UnsupportedTerminalProvider", "WindowsTerminal")
       \/ call.provider = "AlacrittyProvider" /\ os = "Linux"
             /\ call.ret = Err("UnsupportedTerminalProvider", "Alacritty")
    /\ Len(Caller.args) > 1

\* C18: relaunch_in_terminal always returns to its caller, Ok or one of the
\* RelaunchError kinds (a failure to read the executable path or the working
\* directory as IOError), and the process goes on running.
C18_FailuresAreReturned ==
    call.fn = "relaunch_in_terminal" =>
        /\ call.ret.tag \in { "Ok", "Err" }
        /\ call.ret.tag = "Err" =>
              call.ret.val \in { "UnsupportedTerminalProvider", "FailedToLaunchTerminal", "IOError" }
        /\ Caller.pc = "running"

\* ------------------------------------------------- the Linux specification

\* A root process on Linux, where no provider is compiled in: any environment,
\* any command line of the process-level specification, /Applications empty
\* or holding alacritty.app.
InitLinux ==
    /\ os = "Linux"
    /\ registry \in RegistriesOf(os)
    /\ apps \in StartAppsOf(os)
    /\ procs \in { << NewProcess(args, StartDir, env, 0) >> : args \in StartArgs, env \in Envs }
    /\ call = NoCall

NextLinux == ShouldAttemptRelaunch(1) \/ RelaunchIfAvailable(1)

SpecLinux == InitLinux /\ [][NextLinux]_vars

EscapeChars == ArgChars \cup { " ", ";" }

\* shell_escape is called, once, on the argument of a process on macOS, any
\* string of at most MaxEscapeChars characters.
InitEscape ==
    /\ os = "MacOS"
    /\ registry = NoRegistry
    /\ apps = {}
    /\ procs \in { << NewProcess(<< Argv0, s >>, StartDir, EmptyEnv, 0) >> :
                      s \in UNION { [1..k -> EscapeChars] : k \in 0..MaxEscapeChars } }
    /\ call = NoCall

ShellEscape ==
    /\ call = NoCall
    /\ call' = PlainCall("shell_escape", 1, procs[1].args[2], Value(shell_escape(procs[1].args[2])))
    /\ UNCHANGED << os, registry, apps, procs >>

NextEscape == ShellEscape

SpecEscape == InitEscape /\ [][NextEscape]_vars

\* C17: what shell_escape returns is read by a POSIX shell as one command of
\* exactly one word, and the word is the string that was escaped.
C17_ShellEscapeRoundTrip ==
    call.fn = "shell_escape" => shell_commands(call.ret.val) = << << call.arg >> >>

\* A string with a single quote inside it has been escaped.
C17_Witness ==
    /\ call.fn = "shell_escape"
    /\ call.arg = << "x", "'", "x" >>
    /\ call.ret = Value(<< "'", "x", "'", "\\", "'", "'", "x", "'" >>)

\* ------------------------------------------ the classifier's specification

\* find_current_terminal() is called in a process with any environment, on
\* any system, with any delegation values in the registry.
InitClassify ==
    /\ os \in OperatingSystem
    /\ registry \in { r \in RegistriesOf(os) : ~r.wt_app_path }
    /\ apps = {}
    /\ procs \in { << NewProcess(<< Argv0 >>, StartDir, env, 0) >> : env \in Envs }
    /\ call = NoCall

FindCurrentTerminal ==
    /\ call = NoCall
    /\ call' = Call("find_current_terminal", 1, NoArg, FALSE, None, NoResult, 0,
                    Value(find_current_terminal(os, procs[1].env, registry)))
    /\ UNCHANGED << os, registry, apps, procs >>

\* TerminalSignature::EnvVarExists(name).check() is called.
CheckEnvVarExists ==
    /\ call = NoCall
    /\ \E name \in EnvNames :
          call' = Call("TerminalSignature::check", 1, EnvVarExists(name), FALSE, None,
                       NoResult, 0,
                       Bool(check(EnvVarExists(name), procs[1].env, os, registry)))
    /\ UNCHANGED << os, registry, apps, procs >>

NextClassify == FindCurrentTerminal \/ CheckEnvVarExists

SpecClassify == InitClassify /\ [][NextClassify]_vars

\* The identifiers in the order primary table then final table.
SearchOrder == TERMINAL_IDENTIFIERS \o FINAL_TERMINAL_IDENTIFIERS

\* The positions in SearchOrder of the identifiers that are compatible with
\* the system and whose signatures are all true in the root's environment.
MatchingPositions ==
    { k \in 1..Len(SearchOrder) :
        /\ compatible_with_target(os, SearchOrder[k].target_os)
        /\ \A j \in 1..Len(SearchOrder[k].signatures) :
               check(SearchOrder[k].signatures[j], procs[1].env, os, registry) }

FirstMatchingPosition == CHOOSE k \in MatchingPositions : \A m \in MatchingPositions : k <= m

Classified == call.fn = "find_current_terminal"

\* C1: find_current_terminal returns the variant of the first identifier, in
\* the order primary table then final table, that is compatible with RuntimeOS
\* and whose signatures are all true; with TERM_PROGRAM=vscode it returns
\* VSCode on every RuntimeOS, whatever the other variables are.
C1_FirstMatchWins ==
    Classified =>
        /\ MatchingPositions # {} => call.ret = Value(SearchOrder[FirstMatchingPosition].kind)
        /\ procs[1].env[TERM_PROGRAM_VAR] = "vscode" => call.ret = Value("VSCode")

\* VSCode is returned on an unknown system although the variables of Neovim
\* and of Windows Terminal are set too.
C1_Witness ==
    /\ Classified
    /\ os = "Unknown"
    /\ procs[1].env[TERM_PROGRAM_VAR] = "vscode"
    /\ procs[1].env["NVIM"] = "1"
    /\ procs[1].env["WT_SESSION"] = "1"
    /\ Cardinality(MatchingPositions) >= 2
    /\ call.ret = Value("VSCode")

C15_EnvVarExistsIffSet ==
    (call.fn = "TerminalSignature::check" /\ call.arg.sig = "EnvVarExists") =>
        (call.ret = Bool(TRUE) <=> procs[1].env[call.arg.name] # Unset)

====
